---- MODULE Spec2Model ----
(***************************************************************************)
(* The OneLake Iceberg REST catalog proxy of src/function_app.py: one      *)
(* token helper (acquire_onelake_token) and five HTTP-triggered handlers   *)
(* that acquire a bearer token, issue one GET to the catalog and relay the *)
(* result.  An invocation is modelled by its frame (the handler's locals,  *)
(* its position and its response) and by what the identity provider and   *)
(* the catalog saw of it on the wire.                                      *)
(***************************************************************************)
EXTENDS Integers, Sequences, FiniteSets, TLC

VARIABLES TENANT_ID, CLIENT_ID, CLIENT_SECRET, frame, wire, issued, presented, invocations

vars == <<TENANT_ID, CLIENT_ID, CLIENT_SECRET, frame, wire, issued, presented, invocations>>

(* ------------------------------ bounds -------------------------------- *)

\* invocation slots the host may run side by side
NumReqs == 2

\* invocations the host starts in one behaviour
MaxInvocations == 3

Reqs == 1..NumReqs

(* --------------------------- Python values ---------------------------- *)

\* None, and a present value v, kept apart from every string ("None" included)
None == <<>>

Some(v) == <<v>>

\* bool(v) of an optional string: None and "" are falsy
Truthy(v) == v # None /\ v # Some("")

\* a or b
PyOr(a, b) == IF Truthy(a) THEN a ELSE b

\* the {v} of an f-string: None is interpolated as the text None
Str(v) == IF v = None THEN "None" ELSE v[1]

(* ------------------------ module configuration ------------------------ *)

\* what os.getenv can give: unset, set to the empty string, set
EnvValues == {None, Some(""), Some("id")}

\* fault: the check forgets the client secret
CredentialsSetIgnoringSecret(tenant, client, secret) == Truthy(tenant) /\ Truthy(client)

\* if not (TENANT_ID and CLIENT_ID and CLIENT_SECRET)
CredentialsSet(tenant, client, secret) == Truthy(tenant) /\ Truthy(client) /\ Truthy(secret)

(* --------------------------- token provider --------------------------- *)

\* the access token string the identity provider issues n-th
TokenStr(n) == "tok" \o ToString(n)

\* no request reached the identity provider
NoIdpCall == [raised |-> FALSE, exc |-> "", access_token |-> None]

\* what acquire_token_for_client can do once called: a result carrying a
\* fresh access_token, a result without one (the provider's error), or an
\* exception of the HTTP layer under MSAL
IdpAnswers(n) ==
  { [raised |-> FALSE, exc |-> "", access_token |-> Some(TokenStr(n + 1))],
    [raised |-> FALSE, exc |-> "", access_token |-> None],
    [raised |-> TRUE, exc |-> "ConnectionError", access_token |-> None] }

\* fault: a token issued earlier is kept at module level and handed out again
acquire_cached_token(tenant, client, secret, idp) ==
  IF issued > 0
  THEN [raised |-> FALSE, exc |-> "", value |-> Some(TokenStr(issued)), network |-> 0]
  ELSE IF ~(Truthy(tenant) /\ Truthy(client) /\ Truthy(secret))
       THEN [raised |-> TRUE, exc |-> "RuntimeError", value |-> None, network |-> 0]
       ELSE IF idp.raised
            THEN [raised |-> TRUE, exc |-> idp.exc, value |-> None, network |-> 1]
            ELSE IF idp.access_token # None
                 THEN [raised |-> FALSE, exc |-> "", value |-> idp.access_token, network |-> 1]
                 ELSE [raised |-> TRUE, exc |-> "RuntimeError", value |-> None, network |-> 1]

\* fault: when the identity provider gives no token, the token another
\* invocation was issued last is used instead
acquire_or_borrow_token(tenant, client, secret, idp) ==
  IF ~(Truthy(tenant) /\ Truthy(client) /\ Truthy(secret))
  THEN [raised |-> TRUE, exc |-> "RuntimeError", value |-> None, network |-> 0]
  ELSE IF ~idp.raised /\ idp.access_token # None
       THEN [raised |-> FALSE, exc |-> "", value |-> idp.access_token, network |-> 1]
       ELSE IF issued > 0
            THEN [raised |-> FALSE, exc |-> "", value |-> Some(TokenStr(issued)), network |-> 1]
            ELSE [raised |-> TRUE, exc |-> IF idp.raised THEN idp.exc ELSE "RuntimeError",
                  value |-> None, network |-> 1]

\* acquire_onelake_token(): the value returned or the exception raised, and
\* the number of requests it sent to the identity provider
acquire_onelake_token(tenant, client, secret, idp) ==
  IF ~CredentialsSet(tenant, client, secret)
  THEN [raised |-> TRUE, exc |-> "RuntimeError", value |-> None, network |-> 0]
  ELSE IF idp.raised
       THEN [raised |-> TRUE, exc |-> idp.exc, value |-> None, network |-> 1]
       ELSE IF idp.access_token # None
            THEN [raised |-> FALSE, exc |-> "", value |-> idp.access_token, network |-> 1]
            ELSE [raised |-> TRUE, exc |-> "RuntimeError", value |-> None, network |-> 1]

\* fault: except (ConnectionError, Timeout) in place of except Exception
CatchesTransportErrors(exc) == exc \in {"ConnectionError", "Timeout"}

\* except Exception: every exception but the BaseException-only ones
CatchesException(exc) == exc \notin {"KeyboardInterrupt", "SystemExit", "GeneratorExit"}

(* ------------------------------ routes -------------------------------- *)

Routes ==
  {"fn_get_irc_configuration", "fn_list_namespaces", "fn_get_schema_details",
   "fn_read_iceberg_catalog", "fn_read_tables"}

\* the handlers that read req.params.get('schema')
ReadsSchema(route) == route \in {"fn_get_schema_details", "fn_read_iceberg_catalog", "fn_read_tables"}

\* the handler that reads req.params.get('table')
ReadsTable(route) == route = "fn_read_tables"

\* req.params.get(name): None when the query string lacks the parameter
WorkspaceValues == {None, Some("ws1"), Some("My WS")}

DataitemValues == {None, Some("item1.Lakehouse")}

SchemaValues == {None, Some("s1"), Some("")}

TableValues == {None, Some("t1")}

\* fault: the warehouse id is built without its leading slash
WarehouseIdNoLeadingSlash(workspace, dataitem) == Str(workspace) \o "/" \o Str(dataitem)

\* warehouse_id = f"/{workspace}/{dataitem}"
WarehouseId(workspace, dataitem) == "/" \o Str(workspace) \o "/" \o Str(dataitem)

UrlConfig(warehouse_id) ==
  "https://onelake.dfs.fabric.microsoft.com/iceberg/v1/config?warehouse=" \o warehouse_id

UrlNamespaces(warehouse_id) ==
  "https://onelake.dfs.fabric.microsoft.com/iceberg/v1/" \o warehouse_id \o "/namespaces"

UrlSchema(warehouse_id, schema) ==
  "https://onelake.dfs.fabric.microsoft.com/iceberg/v1/" \o warehouse_id
     \o "/namespaces/" \o Str(schema)

UrlTables(warehouse_id, schema) ==
  "https://onelake.dfs.fabric.microsoft.com/iceberg/v1/" \o warehouse_id
     \o "/namespaces/" \o Str(schema) \o "/tables"

UrlTable(warehouse_id, schema, table) ==
  "https://onelake.dfs.fabric.microsoft.com/iceberg/v1/" \o warehouse_id
     \o "/namespaces/" \o Str(schema) \o "/tables/" \o Str(table)

\* tables_url of the handler registered for the route
TablesUrl(route, warehouse_id, schema, table) ==
  CASE route = "fn_get_irc_configuration" -> UrlConfig(warehouse_id)
    [] route = "fn_list_namespaces" -> UrlNamespaces(warehouse_id)
    [] route = "fn_get_schema_details" -> UrlSchema(warehouse_id, schema)
    [] route = "fn_read_iceberg_catalog" -> UrlTables(warehouse_id, schema)
    [] route = "fn_read_tables" -> UrlTable(warehouse_id, schema, table)

(* ------------------------------ bodies -------------------------------- *)

\* A body text is a sequence of lexemes: the JSON punctuation marks, the
\* space, JSON scalars, and words that are no JSON.
JsonStrings == {"\"ok\"", "\"a\""}

JsonScalars == JsonStrings \cup {"true", "false", "null", "1", "1e2", "100.0"}

Null == [t |-> "scalar", lit |-> "null", items |-> <<>>]

\* the value of a scalar, named by its repr: 1e2 is the float 100.0
Scalar(lit) ==
  [t |-> "scalar", lit |-> IF lit = "1e2" THEN "100.0" ELSE lit, items |-> <<>>]

\* a dict keeps a key where it first stood and the value it was given last
PutKey(items, k, v) ==
  IF \E i \in 1..Len(items) : items[i].k = k
  THEN [i \in 1..Len(items) |-> IF items[i].k = k THEN [k |-> k, v |-> v] ELSE items[i]]
  ELSE Append(items, [k |-> k, v |-> v])

\* The decoder reads one lexeme at a time.  open holds the arrays and
\* objects not closed yet (innermost last); expect says what may come next.
\* A value v is complete: it is the document, or it goes into the innermost
\* open array or object.
Reduce(open, v) ==
  IF open = <<>>
  THEN [open |-> open, expect |-> "end", v |-> v]
  ELSE LET top == open[Len(open)]
           items == IF top.t = "array" THEN Append(top.items, [k |-> "", v |-> v])
                    ELSE PutKey(top.items, top.key, v)
       IN [open |-> [open EXCEPT ![Len(open)].items = items], expect |-> "after", v |-> v]

\* the array or object closed by the lexeme c is the innermost open one
Closes(open, c) ==
  /\ open # <<>>
  /\ \/ c = "]" /\ open[Len(open)].t = "array"
     \/ c = "}" /\ open[Len(open)].t = "object"

\* the innermost open array or object, closed
Close(open) ==
  Reduce(SubSeq(open, 1, Len(open) - 1),
         [t |-> open[Len(open)].t, lit |-> "", items |-> open[Len(open)].items])

\* the decoder's state after the lexeme c; expect "error" where it raises
Shift(d, c) ==
  LET open == d.open
      error == [d EXCEPT !.expect = "error"]
  IN IF d.expect = "error" THEN error
     ELSE IF c = " " THEN d
     ELSE IF d.expect \in {"value", "value_or_close"}
          THEN IF c \in JsonScalars THEN Reduce(open, Scalar(c))
               ELSE IF c = "["
                    THEN [open |-> Append(open, [t |-> "array", key |-> "", items |-> <<>>]),
                          expect |-> "value_or_close", v |-> d.v]
               ELSE IF c = "{"
                    THEN [open |-> Append(open, [t |-> "object", key |-> "", items |-> <<>>]),
                          expect |-> "key_or_close", v |-> d.v]
               ELSE IF c = "]" /\ d.expect = "value_or_close" /\ Closes(open, c)
                    THEN Close(open)
               ELSE error
     ELSE IF d.expect \in {"key", "key_or_close"}
          THEN IF c \in JsonStrings
               THEN [d EXCEPT !.open[Len(open)].key = c, !.expect = "colon"]
               ELSE IF c = "}" /\ d.expect = "key_or_close" /\ Closes(open, c)
                    THEN Close(open)
               ELSE error
     ELSE IF d.expect = "colon"
          THEN IF c = ":" THEN [d EXCEPT !.expect = "value"] ELSE error
     ELSE IF d.expect = "after"
          THEN IF c = ","
               THEN [d EXCEPT !.expect = IF open[Len(open)].t = "array" THEN "value" ELSE "key"]
               ELSE IF Closes(open, c) THEN Close(open)
               ELSE error
     ELSE error

RECURSIVE Decode(_, _, _)
\* the decoder's state after text[i], text[i + 1], ..., read from state d (the
\* state after each lexeme is bound to its value before the next is read)
Decode(text, i, d) ==
  IF i > Len(text) THEN d
  ELSE CHOOSE end \in {Decode(text, i + 1, next) : next \in {Shift(d, text[i])}} : TRUE

\* tables_response.json(): ok is FALSE where it raises ValueError
json_loads(text) ==
  LET d == Decode(text, 1, [open |-> <<>>, expect |-> "value", v |-> Null])
  IN IF d.expect = "end" THEN [ok |-> TRUE, v |-> d.v] ELSE [ok |-> FALSE, v |-> Null]

RECURSIVE json_dumps(_), DumpItems(_, _)
\* json.dumps(value) with its default separators ", " and ": "
json_dumps(v) ==
  CASE v.t = "scalar" -> <<v.lit>>
    [] v.t = "array" -> <<"[">> \o DumpItems(v.items, FALSE) \o <<"]">>
    [] v.t = "object" -> <<"{">> \o DumpItems(v.items, TRUE) \o <<"}">>

DumpItems(items, keyed) ==
  IF items = <<>> THEN <<>>
  ELSE (IF keyed THEN <<Head(items).k, ":", " ">> ELSE <<>>)
       \o json_dumps(Head(items).v)
       \o (IF Tail(items) # <<>> THEN <<",", " ">> ELSE <<>>)
       \o DumpItems(Tail(items), keyed)

(* ------------------------------ upstream ------------------------------ *)

Statuses == {200, 304, 404, 503}

Bodies ==
  { <<"{", "\"ok\"", ":", "true", "}">>,
    <<"[", "1e2", ",", "1", "]">>,
    <<"{", "\"a\"", ":", "1", ",", " ", "\"a\"", ":", "null", "}">>,
    <<"not", " ", "found">>,
    <<"{", "\"ok\"", ":">>,
    <<>> }

\* no GET was issued
NoGet == [raised |-> FALSE, exc |-> "", msg |-> "", response |-> None]

Returned(status, text) ==
  [raised |-> FALSE, exc |-> "", msg |-> "",
   response |-> Some([status_code |-> status, text |-> text])]

\* what requests.get(tables_url, headers=headers, timeout=30) can do: return
\* a response, or raise a RequestException with or without a response
GetOutcomes ==
  { Returned(s, b) : s \in Statuses, b \in Bodies }
  \cup { [raised |-> TRUE, exc |-> "ConnectionError", msg |-> "Connection refused",
          response |-> None],
         [raised |-> TRUE, exc |-> "Timeout", msg |-> "Read timed out. (read timeout=30)",
          response |-> None],
         [raised |-> TRUE, exc |-> "TooManyRedirects", msg |-> "Exceeded 30 redirects.",
          response |-> Some([status_code |-> 302, text |-> <<>>])] }

\* tables_response.raise_for_status(): HTTPError, carrying the response, for
\* a 4xx or 5xx status
raise_for_status(got, url) ==
  IF ~got.raised /\ got.response[1].status_code >= 400 /\ got.response[1].status_code < 600
  THEN [raised |-> TRUE, exc |-> "HTTPError",
        msg |-> ToString(got.response[1].status_code)
                  \o (IF got.response[1].status_code < 500 THEN " Client Error" ELSE " Server Error")
                  \o " for url: " \o url,
        response |-> got.response]
  ELSE got

\* fault: except requests.exceptions.HTTPError in place of RequestException
IsHTTPError(exc) == exc = "HTTPError"

\* except requests.exceptions.RequestException
IsRequestException(exc) ==
  exc \in {"RequestException", "HTTPError", "ConnectionError", "Timeout", "TooManyRedirects"}

\* fault: a failed GET is sent once more
RetryOnError(got) == IF got.raised THEN 2 ELSE 1

\* the GETs one call of requests.get puts on the wire: no retry is configured
UpstreamAttempts(got) == 1

(* ----------------------------- responses ------------------------------ *)

\* func.HttpResponse(body, status_code=..., mimetype=...), built by a handler
HttpResponse(body, status_code, mimetype) ==
  [by |-> "handler", status_code |-> status_code, body |-> body, mimetype |-> mimetype]

\* the mimetype of a func.HttpResponse built without one
DefaultMimetype == "text/plain"

\* what the host answers when the handler ends in an exception
PlatformFailure(exc) ==
  [by |-> "platform", status_code |-> 500, body |-> <<exc>>, mimetype |-> DefaultMimetype]

\* fault: if token == ""
TokenIsEmpty(token) == token = Some("")

\* if token is None
TokenIsNone(token) == token = None

\* fault: the attached response is dropped and every failure becomes 502
TranslateErrorAlways502(e, relay_raised) == HttpResponse(<<e.msg>>, 502, DefaultMimetype)

\* the except RequestException block: relay the attached response when there
\* is one and building the relay does not raise, otherwise 502 with str(e)
TranslateError(e, relay_raised) ==
  IF e.response # None /\ ~relay_raised
  THEN HttpResponse(e.response[1].text, e.response[1].status_code, DefaultMimetype)
  ELSE HttpResponse(<<e.msg>>, 502, DefaultMimetype)

\* fault: the body is passed on unparsed and labelled application/json
TranslateSuccessUnparsed(tables_response) ==
  HttpResponse(tables_response.text, tables_response.status_code, "application/json")

\* the last try block: the re-serialized JSON, or the raw text on ValueError
TranslateSuccess(tables_response) ==
  LET tables == json_loads(tables_response.text)
  IN IF tables.ok
     THEN HttpResponse(json_dumps(tables.v), tables_response.status_code, "application/json")
     ELSE HttpResponse(tables_response.text, tables_response.status_code, DefaultMimetype)

(* ----------------------------- invocations ---------------------------- *)

\* a slot no handler runs in
Idle ==
  [pc |-> "Idle", route |-> "", workspace |-> None, dataitem |-> None, schema |-> None,
   table |-> None, warehouse_id |-> "", token |-> None, tables_url |-> "", headers |-> None,
   relay_raised |-> FALSE, response |-> None]

\* nothing of the invocation was on the wire yet: the requests the identity
\* provider got and its answer, the GETs the catalog got and its answer
NoTraffic == [idpCalls |-> 0, idp |-> NoIdpCall, gets |-> <<>>, got |-> NoGet]

Init ==
  /\ \E a, b \in EnvValues : TENANT_ID = PyOr(a, b)
  /\ \E a, b \in EnvValues : CLIENT_ID = PyOr(a, b)
  /\ \E a, b \in EnvValues : CLIENT_SECRET = PyOr(a, b)
  /\ frame = [r \in Reqs |-> Idle]
  /\ wire = [r \in Reqs |-> NoTraffic]
  /\ issued = 0
  /\ presented = {}
  /\ invocations = 0

\* The host calls the handler of a route: it reads its query parameters and
\* builds warehouse_id.
Invoke(r, routes, workspaces, dataitems, schemas, tables) ==
  /\ frame[r].pc = "Idle"
  /\ invocations < MaxInvocations
  /\ \E route \in routes, workspace \in workspaces, dataitem \in dataitems :
       \E schema \in (IF ReadsSchema(route) THEN schemas ELSE {None}),
          table \in (IF ReadsTable(route) THEN tables ELSE {None}) :
         frame' = [frame EXCEPT ![r] =
                     [Idle EXCEPT !.pc = "ParamsExtracted", !.route = route,
                                  !.workspace = workspace, !.dataitem = dataitem,
                                  !.schema = schema, !.table = table,
                                  !.warehouse_id = WarehouseId(workspace, dataitem)]]
  /\ wire' = [wire EXCEPT ![r] = NoTraffic]
  /\ invocations' = invocations + 1
  /\ UNCHANGED <<TENANT_ID, CLIENT_ID, CLIENT_SECRET, issued, presented>>

\* token = None; try: token = acquire_onelake_token(); except Exception: log
AcquireToken(r) ==
  /\ frame[r].pc = "ParamsExtracted"
  /\ \E idp \in (IF CredentialsSet(TENANT_ID, CLIENT_ID, CLIENT_SECRET)
                 THEN IdpAnswers(issued) ELSE {NoIdpCall}) :
       LET res == acquire_onelake_token(TENANT_ID, CLIENT_ID, CLIENT_SECRET, idp)
       IN /\ frame' = [frame EXCEPT ![r] =
                         IF res.raised /\ ~CatchesException(res.exc)
                         THEN [@ EXCEPT !.pc = "Return",
                                        !.response = Some(PlatformFailure(res.exc))]
                         ELSE [@ EXCEPT !.pc = "TokenAttempted", !.token = res.value]]
          /\ wire' = [wire EXCEPT ![r].idpCalls = @ + res.network, ![r].idp = idp]
          /\ issued' = IF idp.access_token # None THEN issued + 1 ELSE issued
  /\ UNCHANGED <<TENANT_ID, CLIENT_ID, CLIENT_SECRET, presented, invocations>>

\* tables_url is built; without a token the handler returns 401, with one it
\* sends the GET and blocks until requests.get returns or raises.
SendUpstream(r, outcomes) ==
  /\ frame[r].pc = "TokenAttempted"
  /\ LET f == frame[r]
         url == TablesUrl(f.route, f.warehouse_id, f.schema, f.table)
     IN IF TokenIsNone(f.token)
        THEN /\ frame' = [frame EXCEPT ![r] =
                            [@ EXCEPT !.pc = "Return", !.tables_url = url,
                                      !.response = Some(HttpResponse(
                                          <<"Authentication required for OneLake tables call">>,
                                          401, DefaultMimetype))]]
             /\ UNCHANGED <<wire, presented>>
        ELSE \E got \in outcomes :
               LET headers == [Authorization |-> "Bearer " \o Str(f.token),
                               Accept |-> "application/json"]
                   get == [url |-> url, headers |-> headers]
               IN /\ frame' = [frame EXCEPT ![r] =
                                 [@ EXCEPT !.pc = "UpstreamCalled", !.tables_url = url,
                                           !.headers = Some(headers)]]
                  /\ wire' = [wire EXCEPT ![r].gets =
                                            @ \o [i \in 1..UpstreamAttempts(got) |-> get],
                                          ![r].got = got]
                  /\ presented' = presented \cup {headers.Authorization}
  /\ UNCHANGED <<TENANT_ID, CLIENT_ID, CLIENT_SECRET, issued, invocations>>

\* raise_for_status and the translation of the outcome into the response
Translate(r) ==
  /\ frame[r].pc = "UpstreamCalled"
  /\ LET e == raise_for_status(wire[r].got, frame[r].tables_url)
     IN IF e.raised
        THEN IF IsRequestException(e.exc)
             THEN \E relay_raised \in (IF e.response # None THEN BOOLEAN ELSE {FALSE}) :
                    frame' = [frame EXCEPT ![r] =
                                [@ EXCEPT !.pc = "Return", !.relay_raised = relay_raised,
                                          !.response = Some(TranslateError(e, relay_raised))]]
             ELSE frame' = [frame EXCEPT ![r] =
                              [@ EXCEPT !.pc = "Return",
                                        !.response = Some(PlatformFailure(e.exc))]]
        ELSE frame' = [frame EXCEPT ![r] =
                         [@ EXCEPT !.pc = "Return",
                                   !.response = Some(TranslateSuccess(e.response[1]))]]
  /\ UNCHANGED <<TENANT_ID, CLIENT_ID, CLIENT_SECRET, wire, issued, presented, invocations>>

\* The handler has returned: the host sends the response and the frame is
\* gone.
Complete(r) ==
  /\ frame[r].pc = "Return"
  /\ frame' = [frame EXCEPT ![r] = Idle]
  /\ wire' = [wire EXCEPT ![r] = NoTraffic]
  /\ UNCHANGED <<TENANT_ID, CLIENT_ID, CLIENT_SECRET, issued, presented, invocations>>

(* --------------------------- specifications --------------------------- *)

\* one invocation at a time, over every route, parameter and outcome
Serial == {1}

Next ==
  \E r \in Serial :
    \/ Invoke(r, Routes, WorkspaceValues, DataitemValues, SchemaValues, TableValues)
    \/ AcquireToken(r)
    \/ SendUpstream(r, GetOutcomes)
    \/ Translate(r)
    \/ Complete(r)

Spec == Init /\ [][Next]_vars

\* a handler runs to its return: the interpreter keeps executing it, and the
\* calls it blocks on return or raise (the GET is bounded by timeout=30)
Step(r) == AcquireToken(r) \/ SendUpstream(r, GetOutcomes) \/ Translate(r)

FairSpec == Spec /\ \A r \in Serial : WF_vars(Step(r))

\* invocations running side by side, over two routes and three outcomes
ConcRoutes == {"fn_get_irc_configuration", "fn_read_tables"}

ConcOutcomes ==
  { Returned(200, <<"{", "\"ok\"", ":", "true", "}">>),
    Returned(404, <<"not", " ", "found">>),
    [raised |-> TRUE, exc |-> "ConnectionError", msg |-> "Connection refused",
     response |-> None] }

ConcNext ==
  \E r \in Reqs :
    \/ Invoke(r, ConcRoutes, {Some("ws1")}, {Some("item1.Lakehouse")}, {Some("s1")}, {Some("t1")})
    \/ AcquireToken(r)
    \/ SendUpstream(r, ConcOutcomes)
    \/ Translate(r)
    \/ Complete(r)

ConcSpec == Init /\ [][ConcNext]_vars

(* ------------------------------- claims ------------------------------- *)

\* C1: an invocation whose token acquisition raised or gave no token never
\* sends a GET to the catalog and, once returned, carries the handler's 401.
C1_TokenFailureIs401 ==
  \A r \in Reqs :
    (frame[r].pc \in {"TokenAttempted", "UpstreamCalled", "Return"}
       /\ wire[r].idp.access_token = <<>>)
    => /\ wire[r].gets = <<>>
       /\ frame[r].pc # "UpstreamCalled"
       /\ frame[r].pc = "Return"
            => /\ frame[r].response[1].by = "handler"
               /\ frame[r].response[1].status_code = 401

\* C1 witness: the identity provider was asked, gave no token, and the
\* invocation returned 401 without a GET.
C1_Witness ==
  \E r \in Reqs :
    /\ frame[r].pc = "Return"
    /\ wire[r].idpCalls = 1
    /\ wire[r].idp.access_token = <<>>
    /\ wire[r].gets = <<>>
    /\ frame[r].response[1].status_code = 401

\* C2: in every state, an invocation has sent at most one GET to the catalog.
C2_AtMostOneUpstreamCall == \A r \in Reqs : Len(wire[r].gets) <= 1

\* C2 witness: an invocation returned 502 after a transport error with one GET
\* on the wire.
C2_Witness ==
  \E r \in Reqs :
    /\ frame[r].pc = "Return"
    /\ wire[r].got.raised
    /\ wire[r].got.response = <<>>
    /\ frame[r].response[1].status_code = 502
    /\ Len(wire[r].gets) = 1

C4_JsonOrRawText ==
  \A r \in Reqs :
    frame[r].pc = "Return"
    => LET resp == frame[r].response[1]
           got == wire[r].got
           clean == /\ wire[r].gets # <<>>
                    /\ ~got.raised
                    /\ got.response[1].status_code \notin 400..599
       IN /\ clean =>
               /\ resp.status_code = got.response[1].status_code
               /\ IF json_loads(got.response[1].text).ok
                  THEN /\ resp.mimetype = "application/json"
                       /\ resp.body = json_dumps(json_loads(got.response[1].text).v)
                       /\ json_loads(resp.body).v = json_loads(got.response[1].text).v
                  ELSE /\ resp.mimetype # "application/json"
                       /\ resp.body = got.response[1].text
               /\ got.response[1].text = <<"{", "\"ok\"", ":", "true", "}">>
                    => resp.body = <<"{", "\"ok\"", ":", " ", "true", "}">>
               /\ got.response[1].text = <<"{", "\"ok\"", ":">>
                    => resp.body = <<"{", "\"ok\"", ":">>
          /\ ~clean => resp.mimetype # "application/json"

\* C4 witness: the catalog answered 200 with {"ok":true} and the handler
\* returned 200, application/json and {"ok": true}.
C4_Witness ==
  \E r \in Reqs :
    /\ frame[r].pc = "Return"
    /\ wire[r].got = Returned(200, <<"{", "\"ok\"", ":", "true", "}">>)
    /\ frame[r].response[1].status_code = 200
    /\ frame[r].response[1].mimetype = "application/json"
    /\ frame[r].response[1].body = <<"{", "\"ok\"", ":", " ", "true", "}">>

\* C5: warehouse_id is "/" + workspace + "/" + dataitem whatever the values,
\* and the GET of each route goes to https://onelake.dfs.fabric.microsoft.com
\* followed by the route's documented path, so the four path routes carry a
\* doubled slash after v1.
C5_DocumentedUrls ==
  \A r \in Reqs :
    LET f == frame[r]
        txt(v) == IF v = <<>> THEN "None" ELSE v[1]
        warehouse == "/" \o txt(f.workspace) \o "/" \o txt(f.dataitem)
        base == "https://onelake.dfs.fabric.microsoft.com"
        path == CASE f.route = "fn_get_irc_configuration" ->
                       "/iceberg/v1/config?warehouse=" \o warehouse
                  [] f.route = "fn_list_namespaces" ->
                       "/iceberg/v1/" \o warehouse \o "/namespaces"
                  [] f.route = "fn_get_schema_details" ->
                       "/iceberg/v1/" \o warehouse \o "/namespaces/" \o txt(f.schema)
                  [] f.route = "fn_read_iceberg_catalog" ->
                       "/iceberg/v1/" \o warehouse \o "/namespaces/" \o txt(f.schema) \o "/tables"
                  [] f.route = "fn_read_tables" ->
                       "/iceberg/v1/" \o warehouse \o "/namespaces/" \o txt(f.schema)
                         \o "/tables/" \o txt(f.table)
    IN f.pc # "Idle"
       => /\ f.warehouse_id = warehouse
          /\ \A i \in 1..Len(wire[r].gets) : wire[r].gets[i].url = base \o path
          /\ f.pc \in {"UpstreamCalled", "Return"} /\ f.tables_url # ""
               => f.tables_url = base \o path

\* C5 witness: the table route sent its GET to the documented URL with the
\* doubled slash.
C5_Witness ==
  \E r \in Reqs :
    /\ frame[r].route = "fn_read_tables"
    /\ wire[r].gets # <<>>
    /\ wire[r].gets[1].url =
         "https://onelake.dfs.fabric.microsoft.com/iceberg/v1//ws1/item1.Lakehouse/namespaces/s1/tables/t1"

\* C6 as stated: with a credential missing, the handler builds no response
\* and the invocation ends as the host's 500.
C6_AsStated ==
  \A r \in Reqs :
    (frame[r].pc = "Return"
       /\ (TENANT_ID \in {<<>>, <<"">>} \/ CLIENT_ID \in {<<>>, <<"">>}
             \/ CLIENT_SECRET \in {<<>>, <<"">>}))
    => /\ frame[r].response[1].by = "platform"
       /\ frame[r].response[1].status_code = 500

\* C6 amended: with a credential missing, the error acquire_onelake_token
\* raises is caught by the handler, which returns its own 401
\* "Authentication required for OneLake tables call".
C6_MissingConfigIsHandled401 ==
  \A r \in Reqs :
    (frame[r].pc = "Return"
       /\ (TENANT_ID \in {<<>>, <<"">>} \/ CLIENT_ID \in {<<>>, <<"">>}
             \/ CLIENT_SECRET \in {<<>>, <<"">>}))
    => frame[r].response[1] =
         [by |-> "handler", status_code |-> 401, mimetype |-> "text/plain",
          body |-> <<"Authentication required for OneLake tables call">>]

\* C6 witness: no tenant is configured and the invocation returned 401.
C6_Witness ==
  \E r \in Reqs :
    /\ TENANT_ID = <<>>
    /\ frame[r].pc = "Return"
    /\ frame[r].response[1].by = "handler"
    /\ frame[r].response[1].status_code = 401

\* C7: with the tenant, the client id or the client secret empty or unset, an
\* invocation sends nothing to the identity provider and nothing to the
\* catalog.
C7_NoNetworkWithoutCredentials ==
  \A r \in Reqs :
    (TENANT_ID \in {<<>>, <<"">>} \/ CLIENT_ID \in {<<>>, <<"">>}
       \/ CLIENT_SECRET \in {<<>>, <<"">>})
    => wire[r].idpCalls = 0 /\ wire[r].gets = <<>>

\* C7 witness: only the client secret is missing (set but empty), and the
\* invocation ran through token acquisition to its return.
C7_Witness ==
  \E r \in Reqs :
    /\ TENANT_ID = <<"id">>
    /\ CLIENT_ID = <<"id">>
    /\ CLIENT_SECRET = <<"">>
    /\ frame[r].pc = "Return"
    /\ wire[r].idpCalls = 0

\* C8: every invocation moves Start -> ParamsExtracted -> TokenAttempted ->
\* (UpstreamCalled ->) Return and reaches Return, where it carries one
\* response, built by the handler.
C8_AlwaysReturnsHandlerResponse ==
  /\ [](\A r \in Reqs :
          frame[r].pc = "Return"
          => Len(frame[r].response) = 1 /\ frame[r].response[1].by = "handler")
  /\ [][\A r \in Reqs :
          frame'[r].pc # frame[r].pc
          => <<frame[r].pc, frame'[r].pc>> \in
               { <<"Idle", "ParamsExtracted">>, <<"ParamsExtracted", "TokenAttempted">>,
                 <<"TokenAttempted", "UpstreamCalled">>, <<"TokenAttempted", "Return">>,
                 <<"UpstreamCalled", "Return">>, <<"Return", "Idle">> }]_vars
  /\ \A r \in Serial : (frame[r].pc = "ParamsExtracted") ~> (frame[r].pc = "Return")

\* C8 witness: an invocation returned the raw text of a 200 answer that is no
\* JSON.
C8_Witness ==
  \E r \in Reqs :
    /\ frame[r].pc = "Return"
    /\ frame[r].response[1].by = "handler"
    /\ frame[r].response[1].status_code = 200
    /\ frame[r].response[1].mimetype = "text/plain"

\* C9: with credentials configured, every invocation asks the identity
\* provider exactly once, after its parameters are read and before its GET;
\* the bearer token of its GET is the one it was issued itself, and was never
\* presented to the catalog before.
C9_FreshTokenPerRequest ==
  /\ [](\A r \in Reqs :
          /\ frame[r].pc \in {"Idle", "ParamsExtracted"}
               => wire[r].idpCalls = 0 /\ wire[r].gets = <<>>
          /\ (frame[r].pc \in {"TokenAttempted", "UpstreamCalled", "Return"}
                /\ TENANT_ID = <<"id">> /\ CLIENT_ID = <<"id">> /\ CLIENT_SECRET = <<"id">>)
               => wire[r].idpCalls = 1
          /\ \A i \in 1..Len(wire[r].gets) :
               /\ wire[r].idp.access_token # <<>>
               /\ wire[r].gets[i].headers.Authorization
                    = "Bearer " \o wire[r].idp.access_token[1])
  /\ [][\A r \in Reqs :
          Len(wire'[r].gets) > Len(wire[r].gets)
          => wire'[r].gets[Len(wire'[r].gets)].headers.Authorization \notin presented]_vars

\* C9 witness: two bearer tokens have been presented to the catalog, the
\* second by an invocation whose GET is on the wire.
C9_Witness ==
  /\ Cardinality(presented) >= 2
  /\ \E r \in Reqs : wire[r].gets # <<>> /\ frame[r].pc = "UpstreamCalled"

\* C10: no step of a handler writes the module-level configuration or
\* another invocation's frame, and two invocations with the same route,
\* parameters, token outcome and upstream outcome end with the same token
\* decision, the same URL and the same response, whatever ran beside them.
C10_IndependentInvocations ==
  /\ [][/\ UNCHANGED <<TENANT_ID, CLIENT_ID, CLIENT_SECRET>>
        /\ \A p, q \in Reqs :
             p # q => (frame'[p] = frame[p] /\ wire'[p] = wire[p])
                        \/ (frame'[q] = frame[q] /\ wire'[q] = wire[q])]_vars
  /\ [](\A p, q \in Reqs :
          LET kind(a) == <<a.raised, a.access_token # <<>> >>
              past(r) == frame[r].pc \in {"TokenAttempted", "UpstreamCalled", "Return"}
          IN /\ (past(p) /\ past(q) /\ kind(wire[p].idp) = kind(wire[q].idp))
                  => (frame[p].token = <<>>) = (frame[q].token = <<>>)
             /\ (/\ frame[p].pc = "Return" /\ frame[q].pc = "Return"
                 /\ frame[p].route = frame[q].route
                 /\ frame[p].workspace = frame[q].workspace
                 /\ frame[p].dataitem = frame[q].dataitem
                 /\ frame[p].schema = frame[q].schema
                 /\ frame[p].table = frame[q].table
                 /\ kind(wire[p].idp) = kind(wire[q].idp)
                 /\ wire[p].got = wire[q].got
                 /\ frame[p].relay_raised = frame[q].relay_raised)
                  => /\ frame[p].response = frame[q].response
                     /\ frame[p].tables_url = frame[q].tables_url
                     /\ Len(wire[p].gets) = Len(wire[q].gets))

\* C10 witness: two invocations with the same inputs ran side by side and
\* both returned the catalog's 200.
C10_Witness ==
  \E p, q \in Reqs :
    /\ p # q
    /\ frame[p].route = frame[q].route
    /\ wire[p].got = wire[q].got
    /\ frame[p].pc = "Return"
    /\ frame[q].pc = "Return"
    /\ frame[p].response[1].status_code = 200
    /\ frame[q].response[1].status_code = 200

====
